---------------------------- MODULE Spec2Model ----------------------------
(***************************************************************************)
(* Model of the QR redirect service (src/app.py): the in-memory            *)
(* redirect_map, slug sanitisation and de-duplication, registration        *)
(* through _register_redirect / POST /webhook / POST /admin/form, and      *)
(* slug resolution through GET /<slug> and GET /redirect/<slug>.           *)
(*                                                                         *)
(* A Python str is a sequence of one-character strings, so that strip(),   *)
(* re.sub() and f-string formatting are computed character by character.   *)
(* A character that a TLA+ string cannot hold is named by its code point,  *)
(* "U+00A0".  An absolute URL prefix or destination that the code never    *)
(* looks into is a single opaque token of such a sequence.                 *)
(***************************************************************************)
EXTENDS Integers, Sequences, FiniteSets, TLC

VARIABLES
    redirect_map,   \* app.py:26  unique_id -> [final_url, redirect_slug]
    env_base,       \* os.getenv("BASE_URL"): <<>> when unset
    ret,            \* the last call or request and what it answered
    raw_input,      \* the string under test when _sanitize_unique_id is called alone
    threads         \* per-thread locals of concurrently running registrations

vars == <<redirect_map, env_base, ret, raw_input, threads>>

---------------------------------------------------------------------------
(* Bounds of the model.                                                    *)

\* Longest raw string handed to _sanitize_unique_id on its own.
MaxRawLen == 3
\* Largest number of entries the registry is allowed to grow to.
MaxEntries == 3

---------------------------------------------------------------------------
(* Characters and Python string primitives.                                *)

AsciiLetters ==
    { "a","b","c","d","e","f","g","h","i","j","k","l","m",
      "n","o","p","q","r","s","t","u","v","w","x","y","z",
      "A","B","C","D","E","F","G","H","I","J","K","L","M",
      "N","O","P","Q","R","S","T","U","V","W","X","Y","Z" }

AsciiDigits == { "0","1","2","3","4","5","6","7","8","9" }

\* The characters the class [a-zA-Z0-9_-] of app.py:34 accepts.
SlugChars == AsciiLetters \cup AsciiDigits \cup { "_", "-" }

\* The 29 characters str.strip() removes: those for which str.isspace()
\* holds.
Whitespace ==
    { "\t", "\n", "U+000B", "\f", "\r",
      "U+001C", "U+001D", "U+001E", "U+001F", " ",
      "U+0085", "U+00A0", "U+1680",
      "U+2000", "U+2001", "U+2002", "U+2003", "U+2004", "U+2005",
      "U+2006", "U+2007", "U+2008", "U+2009", "U+200A",
      "U+2028", "U+2029", "U+202F", "U+205F", "U+3000" }

DigitChar == <<"0","1","2","3","4","5","6","7","8","9">>

\* str(n) / f"{n}" for a non-negative int: its decimal digits.
RECURSIVE IntToStr(_)
IntToStr(n) ==
    IF n < 10 THEN << DigitChar[n + 1] >>
    ELSE IntToStr(n \div 10) \o << DigitChar[(n % 10) + 1] >>

RECURSIVE LStrip(_)
LStrip(s) ==
    IF s # <<>> /\ Head(s) \in Whitespace THEN LStrip(Tail(s)) ELSE s

RECURSIVE RStrip(_)
RStrip(s) ==
    IF s # <<>> /\ s[Len(s)] \in Whitespace
    THEN RStrip(SubSeq(s, 1, Len(s) - 1))
    ELSE s

\* str.strip(): leading and trailing whitespace removed.
Strip(s) == RStrip(LStrip(s))

\* str.rstrip("/")
RECURSIVE RStripSlash(_)
RStripSlash(s) ==
    IF s # <<>> /\ s[Len(s)] = "/"
    THEN RStripSlash(SubSeq(s, 1, Len(s) - 1))
    ELSE s

\* The rest of s after its leading run of characters outside class.
RECURSIVE SkipRun(_, _)
SkipRun(s, class) ==
    IF s # <<>> /\ Head(s) \notin class THEN SkipRun(Tail(s), class) ELSE s

\* re.sub(r"[^<class>]+", "-", s): every maximal run of characters outside
\* the class becomes one "-".
RECURSIVE ReSubRuns(_, _)
ReSubRuns(s, class) ==
    IF s = <<>> THEN <<>>
    ELSE IF Head(s) \in class THEN << Head(s) >> \o ReSubRuns(Tail(s), class)
    ELSE << "-" >> \o ReSubRuns(SkipRun(Tail(s), class), class)

LinkFallback == << "l", "i", "n", "k" >>

\* Mutant of _sanitize_unique_id: the "or" fallback is lost.
SanitizeNoFallback(raw_id) == ReSubRuns(Strip(raw_id), SlugChars)

\* Mutant of _sanitize_unique_id: the class is [a-zA-Z0-9-], so "_" is a
\* separator like any other punctuation.
SanitizeNoUnderscore(raw_id) ==
    LET cleaned == ReSubRuns(Strip(raw_id), SlugChars \ { "_" })
    IN  IF cleaned = <<>> THEN LinkFallback ELSE cleaned

\* Mutant of _sanitize_unique_id: the class is [^\s]: only whitespace is
\* replaced and other punctuation is kept.
SanitizeKeepPunct(raw_id) ==
    LET s == Strip(raw_id)
        cleaned == ReSubRuns(s, { s[i] : i \in 1..Len(s) } \ Whitespace)
    IN  IF cleaned = <<>> THEN LinkFallback ELSE cleaned

\* app.py:29-35
_sanitize_unique_id(raw_id) ==
    LET cleaned == ReSubRuns(Strip(raw_id), SlugChars)
    IN  IF cleaned = <<>> THEN LinkFallback ELSE cleaned

---------------------------------------------------------------------------
(* Python values that reach the handlers: a str, an int, or None.          *)

StrVal(s) == [ t |-> "str",  s |-> s,    n |-> 0 ]
IntVal(n) == [ t |-> "int",  s |-> <<>>, n |-> n ]
NoneVal   == [ t |-> "none", s |-> <<>>, n |-> 0 ]
\* A key that a JSON object does not have.
AbsentVal == [ t |-> "absent", s |-> <<>>, n |-> 0 ]

\* bool(v): the truth value "if not v" tests.
Truthy(v) ==
    CASE v.t = "str" -> v.s # <<>>
      [] v.t = "int" -> v.n # 0
      [] OTHER       -> FALSE

\* isinstance(v, str)
IsStr(v) == v.t = "str"

\* str(v)
PyStr(v) ==
    CASE v.t = "str" -> v.s
      [] v.t = "int" -> IntToStr(v.n)
      [] OTHER       -> << "N", "o", "n", "e" >>

\* dict.get(key, default) on a parsed JSON object.
DictGet(field, default) == IF field.t = "absent" THEN default ELSE field

---------------------------------------------------------------------------
(* The registry and slug assignment.                                       *)

\* app.py:68
ExistingSlugs(map) == { map[k].redirect_slug : k \in DOMAIN map }

\* app.py:73  f"{original_slug}-{suffix}"
Suffixed(original_slug, suffix) ==
    original_slug \o << "-" >> \o IntToStr(suffix)

\* Mutant of SlugScan: the suffix is appended to the previous attempt, not to
\* the original candidate.
RECURSIVE SlugScanChained(_, _, _, _)
SlugScanChained(redirect_slug, original_slug, suffix, existing_slugs) ==
    IF redirect_slug \in existing_slugs
    THEN SlugScanChained(Suffixed(redirect_slug, suffix), original_slug,
                         suffix + 1, existing_slugs)
    ELSE redirect_slug

\* app.py:72-75  the while loop of _ensure_unique_slug
RECURSIVE SlugScan(_, _, _, _)
SlugScan(redirect_slug, original_slug, suffix, existing_slugs) ==
    IF redirect_slug \in existing_slugs
    THEN SlugScan(Suffixed(original_slug, suffix), original_slug,
                  suffix + 1, existing_slugs)
    ELSE redirect_slug

\* Mutant of _ensure_unique_slug: no collision check at all.
EnsureUniqueNoCheck(candidate) == candidate

\* app.py:67-75
_ensure_unique_slug(candidate) ==
    SlugScan(candidate, candidate, 1, ExistingSlugs(redirect_map))

\* request.url_root of the serving host (used when BASE_URL is unset).
UrlRoot == << "http://127.0.0.1:5000", "/" >>

\* app.py:38-50
_build_redirect_url(slug) ==
    LET base == IF env_base # <<>> THEN RStripSlash(env_base)
                                   ELSE RStripSlash(UrlRoot)
    IN  base \o << "/" >> \o slug

\* What a call of _register_redirect leaves behind: the exception it raised
\* ("" for none), the registry after it, and the tuple it returned.
RegisterRaise(exc, message) ==
    [ raised |-> exc, error |-> message, map |-> redirect_map,
      unique_id |-> <<>>, final_url |-> <<>>, redirect_slug |-> <<>>,
      redirect_url |-> <<>>, status |-> "" ]

\* Mutant of RegisterUpdate: the slug is generated again on every
\* registration.
RegisterUpdateReslug(unique_id, final_url) ==
    LET redirect_slug == _ensure_unique_slug(_sanitize_unique_id(unique_id))
    IN  [ raised |-> "", error |-> "",
          map |-> [ redirect_map EXCEPT
                      ![unique_id] = [ final_url |-> final_url,
                                       redirect_slug |-> redirect_slug ] ],
          unique_id |-> unique_id, final_url |-> final_url,
          redirect_slug |-> redirect_slug,
          redirect_url |-> _build_redirect_url(redirect_slug),
          status |-> "updated" ]

\* app.py:89-92  the entry exists: final_url is overwritten in place.
RegisterUpdate(unique_id, final_url) ==
    LET redirect_slug == redirect_map[unique_id].redirect_slug
    IN  [ raised |-> "", error |-> "",
          map |-> [ redirect_map EXCEPT ![unique_id].final_url = final_url ],
          unique_id |-> unique_id, final_url |-> final_url,
          redirect_slug |-> redirect_slug,
          redirect_url |-> _build_redirect_url(redirect_slug),
          status |-> "updated" ]

\* app.py:93-99  a new entry under a fresh slug.
RegisterCreate(unique_id, final_url) ==
    LET redirect_slug == _ensure_unique_slug(_sanitize_unique_id(unique_id))
        entry == [ final_url |-> final_url, redirect_slug |-> redirect_slug ]
    IN  [ raised |-> "", error |-> "",
          map |-> [ k \in DOMAIN redirect_map \cup { unique_id } |->
                      IF k = unique_id THEN entry ELSE redirect_map[k] ],
          unique_id |-> unique_id, final_url |-> final_url,
          redirect_slug |-> redirect_slug,
          redirect_url |-> _build_redirect_url(redirect_slug),
          status |-> "created" ]

\* app.py:78-102
_register_redirect(unique_id_arg, final_url_arg) ==
    LET unique_id == Strip(PyStr(unique_id_arg))
    IN  IF unique_id = <<>>
        THEN RegisterRaise("ValueError", "unique_id is required")
        ELSE IF ~ Truthy(final_url_arg)
        THEN RegisterRaise("ValueError", "final_url is required")
        ELSE IF ~ IsStr(final_url_arg)
        THEN RegisterRaise("TypeError", "final_url must be a string")
        ELSE IF unique_id \in DOMAIN redirect_map
        THEN RegisterUpdate(unique_id, final_url_arg.s)
        ELSE RegisterCreate(unique_id, final_url_arg.s)

---------------------------------------------------------------------------
(* HTTP handlers.  A response is the status code, the exception that       *)
(* escaped the handler ("" for none) and the fields of the body.           *)

NoResponse ==
    [ code |-> 0, raised |-> "", error |-> "", status |-> "",
      unique_id |-> <<>>, redirect_url |-> <<>>, final_url |-> <<>>,
      location |-> <<>>, handler |-> "" ]

\* Mutant of _resolve_redirect: the path segment is looked up as a unique_id
\* (a redirect_map.get(slug)) instead of being compared with the slugs.
ResolveByUniqueId(slug) ==
    IF slug \in DOMAIN redirect_map
    THEN { [ NoResponse EXCEPT !.code = 302,
                               !.location = redirect_map[slug].final_url ] }
    ELSE { [ NoResponse EXCEPT !.code = 404,
                               !.error = "redirect_not_found" ] }

\* app.py:110-114: the answers the loop can give.  It answers with the first
\* entry, in insertion order, that has the slug; the registry is kept here
\* without that order, so every entry that has the slug may be the one.
_resolve_redirect(slug) ==
    LET hits == { k \in DOMAIN redirect_map :
                    redirect_map[k].redirect_slug = slug }
    IN  IF hits # {}
        THEN { [ NoResponse EXCEPT
                   !.code = 302,
                   !.location = redirect_map[k].final_url ] : k \in hits }
        ELSE { [ NoResponse EXCEPT !.code = 404,
                                   !.error = "redirect_not_found" ] }

\* app.py:105-107
health_check == [ NoResponse EXCEPT !.code = 200, !.status = "ok",
                                    !.handler = "health_check" ]

\* app.py:117-121
follow_redirect_root(slug) ==
    { [ r EXCEPT !.handler = "follow_redirect_root" ] :
        r \in _resolve_redirect(slug) }

\* app.py:124-126
follow_redirect(slug) ==
    { [ r EXCEPT !.handler = "follow_redirect" ] :
        r \in _resolve_redirect(slug) }

\* The GET rules of app.py:105, 117 and 124 on a path given as its segments:
\* the responses the request can get.  The explicit rule /health is matched
\* before the parameterised /<slug> (app.py:119-120).
RouteGet(path) ==
    IF path = << << "h","e","a","l","t","h" >> >> THEN { health_check }
    ELSE IF Len(path) = 1 THEN follow_redirect_root(path[1])
    ELSE IF Len(path) = 2 /\ path[1] = << "r","e","d","i","r","e","c","t" >>
    THEN follow_redirect(path[2])
    ELSE { [ NoResponse EXCEPT !.code = 404 ] }

\* A parsed request body: what request.get_json(silent=True) returned.
\*   "none"   None (no JSON) or a falsy JSON value, which "or {}" replaces
\*   "object" a JSON object with the two fields (AbsentVal: key not there)
\*   "other"  a truthy JSON value that is no object (array, string, number)
Payload(kind, unique_id, final_url) ==
    [ kind |-> kind, unique_id |-> unique_id, final_url |-> final_url ]

WebhookError(code, exc, message) ==
    [ map |-> redirect_map,
      resp |-> [ NoResponse EXCEPT !.code = code, !.raised = exc,
                                   !.error = message,
                                   !.handler = "handle_webhook" ] ]

\* app.py:129-163
handle_webhook(payload) ==
    IF payload.kind = "other"
    THEN \* payload.get: the value has no such attribute; nothing catches it
         WebhookError(500, "AttributeError", "")
    ELSE
    LET unique_id == Strip(PyStr(DictGet(payload.unique_id, StrVal(<<>>))))
        final_url == DictGet(payload.final_url, NoneVal)
    IN  IF unique_id = <<>>
        THEN WebhookError(400, "", "unique_id is required")
        ELSE IF ~ Truthy(final_url)
        THEN WebhookError(400, "", "final_url is required")
        ELSE IF ~ IsStr(final_url)
        THEN WebhookError(400, "", "final_url must be a string")
        ELSE
        LET out == _register_redirect(StrVal(unique_id), final_url)
        IN  IF out.raised # ""
            THEN [ WebhookError(400, "", out.error) EXCEPT !.map = out.map ]
            ELSE [ map |-> out.map,
                   resp |-> [ NoResponse EXCEPT
                       !.code = IF out.status = "created" THEN 201 ELSE 200,
                       !.status = out.status,
                       !.unique_id = unique_id,
                       !.redirect_url = out.redirect_url,
                       !.final_url = out.map[out.unique_id].final_url,
                       !.handler = "handle_webhook" ] ]

\* app.py:166-242, the POST branch.  Form fields are strings ("" when the
\* field is not there); the page is served with 200 whatever happened.
admin_form(form_unique_id, form_final_url) ==
    LET unique_id == Strip(form_unique_id)
        final_url == Strip(form_final_url)
        out == _register_redirect(StrVal(unique_id), StrVal(final_url))
    IN  IF out.raised # ""
        THEN [ map |-> out.map,
               resp |-> [ NoResponse EXCEPT !.code = 200,
                                            !.error = out.error,
                                            !.handler = "admin_form" ] ]
        ELSE [ map |-> out.map,
               resp |-> [ NoResponse EXCEPT
                   !.code = 200,
                   !.status = out.status,
                   !.unique_id = unique_id,
                   !.redirect_url = out.redirect_url,
                   !.final_url = out.map[out.unique_id].final_url,
                   !.handler = "admin_form" ] ]

---------------------------------------------------------------------------
(* Inputs.                                                                 *)

Str_a_b     == << "a", " ", "b" >>
Str_a_b_pad == << " ", "a", " ", "b", "\f" >>
Str_blank   == << " ", "U+00A0" >>
Str_a_u_b   == << "a", "_", "b" >>
Str_a_x_b   == << "a", "!", "b" >>
Str_a_b_1   == << "a", "-", "b", "-", "1" >>
Str_health  == << "h", "e", "a", "l", "t", "h" >>
Str_redirect == << "r", "e", "d", "i", "r", "e", "c", "t" >>
Slug_a_b    == << "a", "-", "b" >>
Slug_a_b_2  == << "a", "-", "b", "-", "2" >>

\* Destinations: opaque, non-empty.
Url1 == << "https://example.com" >>
Url2 == << "https://example.org/x" >>

\* The unique_id strings that requests carry.
IdStrings ==
    { <<>>, Str_blank, Str_a_b, Str_a_b_pad, Str_a_u_b, Str_a_x_b,
      Str_a_b_1, Str_health }

\* Arguments of a direct call of _register_redirect.
CallIds  == { StrVal(s) : s \in IdStrings }
CallUrls == { StrVal(<<>>), StrVal(Url1), StrVal(Url2), NoneVal, IntVal(5) }

\* Bodies of POST /webhook.
Payloads ==
    { Payload("none", AbsentVal, AbsentVal),
      Payload("other", AbsentVal, AbsentVal) }
    \cup { Payload("object", u, f) :
             u \in { AbsentVal, NoneVal, StrVal(<<>>), StrVal(Str_blank),
                     StrVal(Str_a_b_pad), StrVal(Str_a_x_b) },
             f \in { AbsentVal, NoneVal, StrVal(<<>>), StrVal(Url1),
                     StrVal(Url2), IntVal(0), IntVal(5) } }

\* Fields of POST /admin/form.
FormIds  == { <<>>, Str_a_b, Str_a_u_b }
FormUrls == { <<>>, << "\f" >>, Url1, << " " >> \o Url2 }

\* Arguments of direct calls made between the HTTP requests.
HttpCallIds  == { StrVal(<<>>), StrVal(Str_blank), StrVal(Str_a_b), NoneVal }
HttpCallUrls == { StrVal(<<>>), StrVal(Url1), NoneVal, IntVal(0), IntVal(5) }

\* Path segments that GET requests ask for.
Segments ==
    { Slug_a_b, Str_a_b_1, Slug_a_b_2, Str_a_u_b, Str_health, Str_a_b,
      LinkFallback }

\* Values of the BASE_URL environment variable (<<>>: unset).
BaseUrls == { <<>>, << "https://qr.example", "/" >> }

\* All strings of length at most n over the alphabet A.
RECURSIVE StringsUpTo(_, _)
StringsUpTo(A, n) ==
    IF n = 0 THEN { <<>> }
    ELSE LET shorter == StringsUpTo(A, n - 1)
         IN  shorter \cup { Append(s, c) : s \in shorter, c \in A }

\* Raw identifiers for _sanitize_unique_id on its own: a letter, a digit, the
\* two kept punctuation marks, ASCII and non-ASCII whitespace, and other
\* punctuation.
RawAlphabet == { "a", "7", "-", "_", " ", "\t", "\f", "U+00A0", "!" }
RawStrings  == StringsUpTo(RawAlphabet, MaxRawLen)

---------------------------------------------------------------------------
(* State.                                                                  *)

EmptyMap == [ k \in {} |-> [ final_url |-> <<>>, redirect_slug |-> <<>> ] ]

Ret(op, unique_id, final_url, kind, path, result, resp) ==
    [ op |-> op, unique_id |-> unique_id, final_url |-> final_url,
      kind |-> kind, path |-> path, result |-> result, resp |-> resp ]

NoRet == Ret("", NoneVal, NoneVal, "", <<>>, <<>>, NoResponse)

ThreadIds == { 1, 2 }

IdleThread ==
    [ pc |-> "idle", unique_id |-> <<>>, final_url |-> <<>>,
      stale |-> FALSE, iter_size |-> 0, unvisited |-> {},
      existing_slugs |-> {}, redirect_slug |-> <<>>, status |-> "",
      raised |-> "" ]

Init ==
    /\ redirect_map = EmptyMap
    /\ env_base \in BaseUrls
    /\ ret = NoRet
    /\ raw_input = <<>>
    /\ threads = [ t \in ThreadIds |-> IdleThread ]

\* The registry never outgrows the bound of the model.
WithinBound(map) == Cardinality(DOMAIN map) <= MaxEntries

---------------------------------------------------------------------------
(* Sequential operation: one call or request at a time.                    *)

\* A direct call _register_redirect(unique_id, final_url).
RegisterCall(unique_id, final_url) ==
    LET out == _register_redirect(unique_id, final_url)
    IN  /\ WithinBound(out.map)
        /\ redirect_map' = out.map
        /\ ret' = Ret("register", unique_id, final_url, "", <<>>, <<>>,
                      [ NoResponse EXCEPT
                          !.raised = out.raised,
                          !.error = out.error,
                          !.status = out.status,
                          !.unique_id = out.unique_id,
                          !.redirect_url = out.redirect_url,
                          !.final_url =
                              IF out.raised = ""
                              THEN out.map[out.unique_id].final_url
                              ELSE <<>> ])
        /\ UNCHANGED << env_base, raw_input, threads >>

\* POST /webhook
Webhook(payload) ==
    LET out == handle_webhook(payload)
    IN  /\ WithinBound(out.map)
        /\ redirect_map' = out.map
        /\ ret' = Ret("webhook", payload.unique_id, payload.final_url,
                      payload.kind, <<>>, <<>>, out.resp)
        /\ UNCHANGED << env_base, raw_input, threads >>

\* POST /admin/form
AdminFormPost(unique_id, final_url) ==
    LET out == admin_form(unique_id, final_url)
    IN  /\ WithinBound(out.map)
        /\ redirect_map' = out.map
        /\ ret' = Ret("admin_form", StrVal(unique_id), StrVal(final_url),
                      "", <<>>, <<>>, out.resp)
        /\ UNCHANGED << env_base, raw_input, threads >>

\* GET /<segment>
GetRoot(segment) ==
    /\ \E response \in RouteGet(<< segment >>) :
         ret' = Ret("get", NoneVal, NoneVal, "", << segment >>, <<>>,
                    response)
    /\ UNCHANGED << redirect_map, env_base, raw_input, threads >>

\* GET /redirect/<segment>
GetRedirect(segment) ==
    /\ \E response \in RouteGet(<< Str_redirect, segment >>) :
         ret' = Ret("get", NoneVal, NoneVal, "", << Str_redirect, segment >>,
                    <<>>, response)
    /\ UNCHANGED << redirect_map, env_base, raw_input, threads >>

Next ==
    \/ \E u \in CallIds, f \in CallUrls : RegisterCall(u, f)
    \/ \E s \in Segments : GetRoot(s)
    \/ \E s \in Segments : GetRedirect(s)

Spec == Init /\ [][Next]_vars

\* The registration endpoints: the webhook, the admin form and direct calls.
NextHttp ==
    \/ \E p \in Payloads : Webhook(p)
    \/ \E u \in FormIds, f \in FormUrls : AdminFormPost(u, f)
    \/ \E u \in HttpCallIds, f \in HttpCallUrls : RegisterCall(u, f)

SpecHttp == Init /\ [][NextHttp]_vars

---------------------------------------------------------------------------
(* _sanitize_unique_id on its own, and the registrations that collide with *)
(* the string under test.                                                  *)

InitSanitize ==
    /\ redirect_map = EmptyMap
    /\ env_base = <<>>
    /\ ret = NoRet
    /\ raw_input \in RawStrings
    /\ threads = [ t \in ThreadIds |-> IdleThread ]

\* A call _sanitize_unique_id(raw_input).
SanitizeCall ==
    /\ ret' = Ret("sanitize", NoneVal, NoneVal, "", raw_input,
                  _sanitize_unique_id(raw_input), NoResponse)
    /\ UNCHANGED << redirect_map, env_base, raw_input, threads >>

\* The identifiers that meet the slug of raw_input: the string itself, its slug and
\* its first suffixed slug.
CollidingIds ==
    { raw_input, _sanitize_unique_id(raw_input),
      Suffixed(_sanitize_unique_id(raw_input), 1) }

NextSanitize ==
    \/ SanitizeCall
    \/ \E u \in CollidingIds : RegisterCall(StrVal(u), StrVal(Url1))

SpecSanitize == InitSanitize /\ [][NextSanitize]_vars

---------------------------------------------------------------------------
(* Concurrent registrations: request threads share redirect_map with no    *)
(* lock, and a thread may be switched out between any two reads or writes  *)
(* of the registry.  A thread runs _register_redirect in these steps: the  *)
(* validation and the lookup (app.py:79-87); for an entry found, the write *)
(* into it (app.py:89-92); for a new unique_id, the creation of the        *)
(* iterator over the registry (app.py:68), one step of the iteration at a  *)
(* time (app.py:68), the last of them followed by the loop over the        *)
(* collected slugs (app.py:69-75), and the store (app.py:95-102).          *)

RaceIds  == { Str_a_b, Str_a_x_b, Str_a_b_1, Str_blank }
RaceUrls == { Url1, Url2 }

\* app.py:79-87  validation and existing_entry = redirect_map.get(unique_id).
\* The entry found is an object the thread holds from then on; its slug is
\* never rewritten.
ThreadLookup(t, unique_id_arg, final_url) ==
    LET unique_id == Strip(unique_id_arg)
    IN  /\ threads[t].pc = "idle"
        /\ threads' = [ threads EXCEPT ![t] =
             IF unique_id = <<>>
             THEN [ IdleThread EXCEPT !.pc = "done", !.raised = "ValueError" ]
             ELSE IF final_url = <<>>
             THEN [ IdleThread EXCEPT !.pc = "done", !.raised = "ValueError" ]
             ELSE IF unique_id \in DOMAIN redirect_map
             THEN [ IdleThread EXCEPT
                      !.pc = "update", !.unique_id = unique_id,
                      !.final_url = final_url,
                      !.redirect_slug = redirect_map[unique_id].redirect_slug ]
             ELSE [ IdleThread EXCEPT
                      !.pc = "scan", !.unique_id = unique_id,
                      !.final_url = final_url ] ]
        /\ UNCHANGED << redirect_map, env_base, ret, raw_input >>

\* app.py:89-92  existing_entry["final_url"] = final_url.  The write goes to
\* the entry object found by the lookup; when another thread has since
\* stored a new entry under the unique_id, that object is no longer in the
\* registry and the registry stays as it is.
ThreadUpdate(t) ==
    /\ threads[t].pc = "update"
    /\ redirect_map' =
         IF threads[t].stale THEN redirect_map
         ELSE [ redirect_map EXCEPT
                  ![threads[t].unique_id].final_url = threads[t].final_url ]
    /\ threads' = [ threads EXCEPT ![t].pc = "done",
                                   ![t].status = "updated" ]
    /\ UNCHANGED << env_base, ret, raw_input >>

\* app.py:68  redirect_map.values() is iterated: the iterator notes the size
\* of the dict.
ThreadIter(t) ==
    /\ threads[t].pc = "scan"
    /\ threads' = [ threads EXCEPT
                      ![t].pc = "iterate",
                      ![t].iter_size = Cardinality(DOMAIN redirect_map),
                      ![t].unvisited = DOMAIN redirect_map ]
    /\ UNCHANGED << redirect_map, env_base, ret, raw_input >>

\* app.py:68-75  one step of the iterator.  A dict whose size has changed
\* since the iterator was made raises RuntimeError ("dictionary changed size
\* during iteration") and the call ends with nothing stored; otherwise the
\* slug of one more entry, as it is now, is collected; when none is left the
\* while loop picks the slug.
ThreadNext(t) ==
    /\ threads[t].pc = "iterate"
    /\ IF Cardinality(DOMAIN redirect_map) # threads[t].iter_size
       THEN threads' = [ threads EXCEPT ![t] =
                [ IdleThread EXCEPT !.pc = "done",
                                    !.unique_id = threads[t].unique_id,
                                    !.final_url = threads[t].final_url,
                                    !.raised = "RuntimeError" ] ]
       ELSE IF threads[t].unvisited = {}
       THEN threads' = [ threads EXCEPT
                ![t].pc = "store",
                ![t].iter_size = 0,
                ![t].redirect_slug =
                    SlugScan(_sanitize_unique_id(threads[t].unique_id),
                             _sanitize_unique_id(threads[t].unique_id), 1,
                             threads[t].existing_slugs) ]
       ELSE \E k \in threads[t].unvisited :
              threads' = [ threads EXCEPT
                ![t].unvisited = @ \ { k },
                ![t].existing_slugs =
                    @ \cup { redirect_map[k].redirect_slug } ]
    /\ UNCHANGED << redirect_map, env_base, ret, raw_input >>

\* Mutant of StoredSlug: the slug is scanned for again when the entry is
\* stored, as it would be with the scan and the store under one lock.
StoredSlugRescanned(t) ==
    _ensure_unique_slug(_sanitize_unique_id(threads[t].unique_id))

\* app.py:95-98  the slug stored is the one the scan returned earlier.
StoredSlug(t) == threads[t].redirect_slug

\* app.py:95-102  redirect_map[unique_id] = {...}.  An entry object another
\* thread holds for this unique_id is replaced in the registry.
ThreadStore(t) ==
    /\ threads[t].pc = "store"
    /\ redirect_map' =
         [ k \in DOMAIN redirect_map \cup { threads[t].unique_id } |->
             IF k = threads[t].unique_id
             THEN [ final_url |-> threads[t].final_url,
                    redirect_slug |-> StoredSlug(t) ]
             ELSE redirect_map[k] ]
    /\ threads' =
         [ o \in ThreadIds |->
             IF o = t
             THEN [ threads[t] EXCEPT !.pc = "done", !.status = "created" ]
             ELSE IF /\ threads[o].pc = "update"
                     /\ threads[o].unique_id = threads[t].unique_id
             THEN [ threads[o] EXCEPT !.stale = TRUE ]
             ELSE threads[o] ]
    /\ UNCHANGED << env_base, ret, raw_input >>

\* The request is answered and the thread takes the next one.
ThreadReturn(t) ==
    /\ threads[t].pc = "done"
    /\ threads' = [ threads EXCEPT ![t] = IdleThread ]
    /\ UNCHANGED << redirect_map, env_base, ret, raw_input >>

NextRace ==
    \/ \E t \in ThreadIds, u \in RaceIds, f \in RaceUrls : ThreadLookup(t, u, f)
    \/ \E t \in ThreadIds : ThreadUpdate(t)
    \/ \E t \in ThreadIds : ThreadIter(t)
    \/ \E t \in ThreadIds : ThreadNext(t)
    \/ \E t \in ThreadIds : ThreadStore(t)
    \/ \E t \in ThreadIds : ThreadReturn(t)

SpecRace == Init /\ [][NextRace]_vars

---------------------------------------------------------------------------
(* Properties.                                                             *)

Slug_a_b_1 == Str_a_b_1

\* The key a registration request addresses: its unique_id as text, trimmed.
KeyOf(v) == Strip(PyStr(v))

\* final_url is a non-empty string.
ValidUrl(v) == v.t = "str" /\ v.s # <<>>

\* All characters of s are of the slug alphabet.
OnlySlugChars(s) == \A i \in 1..Len(s) : s[i] \in SlugChars

Min(S) == CHOOSE k \in S : \A j \in S : k <= j

\* The segments of the path of an absolute URL <<origin, "/", ...>>.
RECURSIVE SplitSlash(_, _)
SplitSlash(s, current) ==
    IF s = <<>> THEN IF current = <<>> THEN <<>> ELSE << current >>
    ELSE IF Head(s) = "/"
         THEN (IF current = <<>> THEN <<>> ELSE << current >>)
              \o SplitSlash(Tail(s), <<>>)
    ELSE SplitSlash(Tail(s), Append(current, Head(s)))

PathOf(url) == SplitSlash(Tail(url), <<>>)

\* C1: after any sequence of sequential registrations no two entries of
\* redirect_map have the same redirect_slug.
C1_UniqueSlugs ==
    \A a \in DOMAIN redirect_map : \A b \in DOMAIN redirect_map :
        a # b => redirect_map[a].redirect_slug # redirect_map[b].redirect_slug

\* Three entries, two of which sanitise to the same candidate and the third
\* of which is a suffixed form of it.
C1_Witness == DOMAIN redirect_map = { Str_a_b, Str_a_x_b, Str_a_b_1 }

\* C2: registering a unique_id that already has an entry (compared after
\* trimming) with a valid final_url overwrites final_url, changes nothing else
\* of the registry and returns "updated"; and no step of any registration
\* ever changes or removes the slug of an existing entry.
C2_UpdateKeepsSlug ==
    [][ /\ ( /\ ret'.op = "register"
             /\ ValidUrl(ret'.final_url)
             /\ KeyOf(ret'.unique_id) \in DOMAIN redirect_map )
          => /\ ret'.resp.status = "updated"
             /\ ret'.resp.raised = ""
             /\ redirect_map' =
                  [ redirect_map EXCEPT
                      ![KeyOf(ret'.unique_id)].final_url = ret'.final_url.s ]
        /\ \A k \in DOMAIN redirect_map :
             /\ k \in DOMAIN redirect_map'
             /\ redirect_map'[k].redirect_slug = redirect_map[k].redirect_slug
      ]_vars

\* " a b " re-registered with another destination, after "a!b" took the slug
\* a-b before it and a third entry came in between.
C2_Witness ==
    /\ ret.op = "register"
    /\ ret.unique_id = StrVal(Str_a_b_pad)
    /\ ret.resp.status = "updated"
    /\ Cardinality(DOMAIN redirect_map) = 3
    /\ Str_a_b \in DOMAIN redirect_map
    /\ redirect_map[Str_a_b] =
         [ final_url |-> Url2, redirect_slug |-> Slug_a_b_1 ]

\* C3: for every registered unique_id, a GET on the path of its redirect URL
\* answers 302 to the final_url last registered for it.
C3_RoundTrip ==
    \A k \in DOMAIN redirect_map :
        \A response \in
            RouteGet(PathOf(_build_redirect_url(redirect_map[k].redirect_slug))) :
          /\ response.code = 302
          /\ response.location = redirect_map[k].final_url

\* The ids of the model, other than "a b" itself, that sanitise to a-b.
SameCandidateIds ==
    { u \in { KeyOf(StrVal(s)) : s \in IdStrings } :
        u # Str_a_b /\ _sanitize_unique_id(u) = Slug_a_b }

\* The registry holds "a b" and one entry more, which was created last.
SecondAfter_a_b(second) ==
    /\ ret.op = "register"
    /\ ret.resp.status = "created"
    /\ ret.resp.unique_id = second
    /\ DOMAIN redirect_map = { Str_a_b, second }

\* C4 as stated: "a b" and then "a_b", or any id that sanitises to a-b, get
\* the slugs a-b and a-b-1.
C4_Original ==
    \A second \in SameCandidateIds \cup { Str_a_u_b } :
        SecondAfter_a_b(second)
          => /\ redirect_map[Str_a_b].redirect_slug = Slug_a_b
             /\ redirect_map[second].redirect_slug = Slug_a_b_1

\* C4 amended: "a b" and then an id that sanitises to a-b get a-b and a-b-1;
\* "a_b" is no such id: it keeps its underscore and gets the slug a_b.
C4_Collision ==
    /\ \A second \in SameCandidateIds :
         SecondAfter_a_b(second)
           => /\ redirect_map[Str_a_b].redirect_slug = Slug_a_b
              /\ redirect_map[second].redirect_slug = Slug_a_b_1
    /\ SecondAfter_a_b(Str_a_u_b)
         => /\ redirect_map[Str_a_b].redirect_slug = Slug_a_b
            /\ redirect_map[Str_a_u_b].redirect_slug = Str_a_u_b

C4_Witness ==
    /\ SecondAfter_a_b(Str_a_x_b)
    /\ redirect_map[Str_a_x_b].redirect_slug = Slug_a_b_1

\* C8: GET /redirect/<slug> answers 302 to the final_url of an entry that has
\* the slug when there is one, 404 redirect_not_found when there is none, and
\* leaves the registry as it was.
C8_Resolve ==
    [][ ( ret'.op = "get" /\ ret'.resp.handler = "follow_redirect" )
          => LET slug == ret'.path[2]
                 holders == { k \in DOMAIN redirect_map :
                                redirect_map[k].redirect_slug = slug }
             IN  /\ redirect_map' = redirect_map
                 /\ holders # {} =>
                      /\ ret'.resp.code = 302
                      /\ \E k \in holders :
                           ret'.resp.location = redirect_map[k].final_url
                 /\ holders = {} =>
                      /\ ret'.resp.code = 404
                      /\ ret'.resp.error = "redirect_not_found"
      ]_vars

\* A registered unique_id that is not a slug is asked for and not found.
C8_Witness ==
    /\ ret.op = "get"
    /\ ret.resp.handler = "follow_redirect"
    /\ ret.path = << Str_redirect, Str_a_b >>
    /\ Str_a_b \in DOMAIN redirect_map
    /\ ret.resp.code = 404

\* C9: a newly created entry gets its candidate when no entry uses it, and
\* otherwise candidate-k for the smallest k >= 1 that no entry uses; k is at
\* most the number of entries, so the scan ends.
C9_SmallestSuffix ==
    [][ ( ret'.op = "register" /\ ret'.resp.status = "created" )
          => LET unique_id == ret'.resp.unique_id
                 candidate == _sanitize_unique_id(unique_id)
                 used == ExistingSlugs(redirect_map)
                 free == { k \in 1..(Cardinality(used) + 1) :
                             Suffixed(candidate, k) \notin used }
             IN  /\ unique_id \notin DOMAIN redirect_map
                 /\ redirect_map'[unique_id].redirect_slug =
                      IF candidate \notin used THEN candidate
                      ELSE Suffixed(candidate, Min(free))
                 /\ candidate \in used => Min(free) <= Cardinality(used)
      ]_vars

\* a-b and a-b-1 are both taken, a-b-1 by an entry registered under that very
\* id, and the new entry gets a-b-2.
C9_Witness ==
    /\ ret.op = "register"
    /\ ret.resp.status = "created"
    /\ Str_a_b_1 \in DOMAIN redirect_map
    /\ ret.resp.unique_id \in { Str_a_b, Str_a_x_b }
    /\ redirect_map[ret.resp.unique_id].redirect_slug = Slug_a_b_2

\* C5: what _sanitize_unique_id returns is never empty and has only ASCII
\* letters, digits, "-" and "_"; and so has every redirect_slug stored.
C5_SlugAlphabet ==
    /\ ret.op = "sanitize" =>
         /\ ret.result # <<>>
         /\ OnlySlugChars(ret.result)
    /\ \A k \in DOMAIN redirect_map :
         /\ redirect_map[k].redirect_slug # <<>>
         /\ OnlySlugChars(redirect_map[k].redirect_slug)

\* A string with whitespace and other punctuation in it was sanitised, and
\* the registry holds a slug that had to be suffixed.
C5_Witness ==
    /\ ret.op = "sanitize"
    /\ \E i \in 1..Len(ret.path) : ret.path[i] \in Whitespace
    /\ \E i \in 1..Len(ret.path) : ret.path[i] \notin SlugChars \cup Whitespace
    /\ \E k \in DOMAIN redirect_map :
         redirect_map[k].redirect_slug = Suffixed(ret.result, 1)

\* No character of s is of the slug alphabet (s may be empty).
NoSlugChars(s) == \A i \in 1..Len(s) : s[i] \notin SlugChars

OnlyWhitespace(s) == \A i \in 1..Len(s) : s[i] \in Whitespace

\* C6 as stated: an input that is empty, whitespace or punctuation throughout
\* yields "link".
C6_Original ==
    ( ret.op = "sanitize" /\ NoSlugChars(ret.path) )
      => ret.result = LinkFallback

\* C6 amended: an input that is empty or whitespace throughout yields "link";
\* an input without slug characters that has a character other than
\* whitespace yields "-".
C6_Fallback ==
    ret.op = "sanitize" =>
      /\ OnlyWhitespace(ret.path) => ret.result = LinkFallback
      /\ ( NoSlugChars(ret.path) /\ ~ OnlyWhitespace(ret.path) )
           => ret.result = << "-" >>

\* Punctuation around whitespace collapses to one dash.
C6_Witness ==
    /\ ret.op = "sanitize"
    /\ Len(ret.path) = 3
    /\ NoSlugChars(ret.path)
    /\ ret.path[2] \in Whitespace
    /\ ret.result = << "-" >>

\* unique_id is missing or empty after trimming, or final_url is missing,
\* empty or no string.
InvalidRequest(r) ==
    /\ r.op \in { "webhook", "register", "admin_form" }
    /\ \/ r.unique_id.t = "absent"
       \/ r.unique_id.t = "str" /\ Strip(r.unique_id.s) = <<>>
       \/ r.final_url.t = "absent"
       \/ r.final_url.t = "str" /\ r.final_url.s = <<>>
       \/ r.final_url.t \notin { "str", "absent" }

\* The request was refused with an error: 400 and a message on the webhook,
\* ValueError or TypeError from the call, a message on the admin page.
Rejected(r) ==
    /\ r.resp.status = ""
    /\ r.resp.error # ""
    /\ r.op = "webhook" => r.resp.code = 400 /\ r.resp.raised = ""
    /\ r.op = "register" => r.resp.raised \in { "ValueError", "TypeError" }

\* C7: an invalid registration request is rejected with an error (400 with a
\* message on the webhook) and leaves redirect_map as it was.
C7_InvalidRejected ==
    [][ InvalidRequest(ret') =>
          /\ Rejected(ret')
          /\ redirect_map' = redirect_map
      ]_vars

\* C10: two registrations of distinct new unique_ids with one candidate, each
\* having scanned the registry before the other stored its entry (they saw
\* the same slugs), leave two entries with one redirect_slug.
C10_RaceDuplicates ==
    \A t1 \in ThreadIds : \A t2 \in ThreadIds :
        ( /\ t1 # t2
          /\ threads[t1].pc = "done" /\ threads[t1].status = "created"
          /\ threads[t2].pc = "done" /\ threads[t2].status = "created"
          /\ threads[t1].unique_id # threads[t2].unique_id
          /\ _sanitize_unique_id(threads[t1].unique_id)
               = _sanitize_unique_id(threads[t2].unique_id)
          /\ threads[t1].existing_slugs = threads[t2].existing_slugs )
        => /\ threads[t1].unique_id \in DOMAIN redirect_map
           /\ threads[t2].unique_id \in DOMAIN redirect_map
           /\ redirect_map[threads[t1].unique_id].redirect_slug
                = redirect_map[threads[t2].unique_id].redirect_slug

\* Both threads have stored their entry and the two entries share a slug.
C10_Witness ==
    /\ \A t \in ThreadIds :
         threads[t].pc = "done" /\ threads[t].status = "created"
    /\ threads[1].unique_id # threads[2].unique_id
    /\ redirect_map[threads[1].unique_id].redirect_slug
         = redirect_map[threads[2].unique_id].redirect_slug

=============================================================================
